---- MODULE Spec2Model ----
\* Ledger model of the Bloom Budget app: the transactions and accounts tables,
\* the screens that record and delete transactions, and the account snapshots
\* those screens keep in component state.
EXTENDS Integers, FiniteSets, Sequences, TLC

VARIABLES
    transactions,   \* rows of the transactions table
    accounts,       \* rows of the accounts table
    now,            \* Date.now(), in clock ticks
    formAccounts,   \* AddTransactionScreen: ids held by the `accounts` state
    allTx,          \* AllTransactionsScreen: `transactions` and `accounts` state
    budget,         \* BudgetCategoryDetailsScreen: `transactions` and `accounts` state
    goalAccounts,   \* GoalDetailsScreen: `accounts` state
    faults,         \* storage operations that have failed so far
    last,           \* the handler that ran last and how it ended
    categories,     \* rows of the categories table
    initTable,      \* rows of the initialization marker table
    schema,         \* the tables of the database file and their columns
    store,          \* rows of the other tables: transactions_temp, budgets, goals
    manage,         \* ManageAccountsScreen: `accounts`, `editingAccount`, `formData`
    goalScreen,     \* GoalScreen: `accounts`, `goals`, the form fields, `monthlyContribution`
    call            \* the store operation called last: arguments, outcome, rows returned

\* what the ledger screens leave alone
storeVars == <<categories, initTable, schema, store, manage, goalScreen, call>>

vars == <<transactions, accounts, now, formAccounts, allTx, budget, goalAccounts, faults, last,
          categories, initTable, schema, store, manage, goalScreen, call>>

----
\* Bounds

\* number of recording operations (form submits, goal assignments) in a run
MaxRecords == 2

\* number of storage operations that fail in a run
MaxFaults == 1

\* the clock advances by Tick between two handlers, so that the ids
\* trans_<now> and trans_<now + 1> of one handler are never reused by the next
Tick == 2

----
\* Values

Null == "null"
Empty == ""

SessionUser == "u1"

AccountIds == {"a1", "g1"}

\* the account owned by the goal shown on the goal details screen
GoalAccountId == "g1"

EmergencyAccountId == "emergency_account"

\* what the amount text field can hold
AmountInputs == {"", "-1", "0", "1"}

\* what the date picker can hold
Dates == {1, 2}

ExpenseCategoryId == "food_1"
IncomeCategoryId == "salary_1"
TransferCategoryId == "transfer_1"

\* the write of a handler that fails (0: none does)
MaxWrites == 4
Faults == 0..MaxWrites

----
\* Pure helpers

\* parseFloat on the strings of AmountInputs that reach it (the empty string
\* is rejected by both forms before parseFloat is applied)
ParseFloat(s) ==
    CASE s = "-1" -> 0 - 1
      [] s = "0" -> 0
      [] s = "1" -> 1

\* `trans_${Date.now()}` and its variants
MakeId(prefix, t) == prefix \o ToString(t)

\* a[id] on a snapshot map, as a set holding the row or nothing
Lookup(rows, id) == {r \in rows : r.id = id}

TheRow(rows, id) == CHOOSE r \in rows : r.id = id

----
\* Storage layer: each operation is one autocommitted statement

\* INSERT INTO transactions (...) VALUES (...): the id is the primary key
InsertThrows(db, row) == \E r \in db.transactions : r.id = row.id

InsertTransaction(db, row) ==
    [db EXCEPT !.transactions = @ \cup {row}]

\* UPDATE accounts SET balance = balance + ? WHERE id = ?
AddToBalance(db, id, delta) ==
    [db EXCEPT !.accounts =
        {IF r.id = id THEN [r EXCEPT !.balance = @ + delta] ELSE r : r \in @}]

\* what `!x` holds of: a property that is not there, and the empty string
MissingValues == {Null, Empty}

\* updateAccount rejects an account without id or userId
updateAccountThrows(account) ==
    account.id \in MissingValues \/ account.userId \in MissingValues

\* updateAccount as it would be with WHERE id = ? alone
updateAccountById(db, account) ==
    [db EXCEPT !.accounts =
        {IF r.id = account.id
            THEN [r EXCEPT !.name = account.name, !.balance = account.balance,
                           !.updatedAt = now, !.synced = 0]
            ELSE r : r \in @}]

\* updateAccount as it would be without synced = 0 in its SET list
updateAccountKeepsSynced(db, account) ==
    [db EXCEPT !.accounts =
        {IF r.id = account.id /\ r.userId = account.userId
            THEN [r EXCEPT !.name = account.name, !.balance = account.balance,
                           !.updatedAt = now]
            ELSE r : r \in @}]

\* updateAccount as it would be with synced = ? bound to account.synced
updateAccountCallerSynced(db, account) ==
    [db EXCEPT !.accounts =
        {IF r.id = account.id /\ r.userId = account.userId
            THEN [r EXCEPT !.name = account.name, !.balance = account.balance,
                           !.updatedAt = now, !.synced = account.synced]
            ELSE r : r \in @}]

\* updateAccount as it would be with balance = balance + ?
updateAccountAddsBalance(db, account) ==
    [db EXCEPT !.accounts =
        {IF r.id = account.id /\ r.userId = account.userId
            THEN [r EXCEPT !.name = account.name, !.balance = @ + account.balance,
                           !.updatedAt = now, !.synced = 0]
            ELSE r : r \in @}]

\* UPDATE accounts SET name = ?, balance = ?, icon = ?, updatedAt = ?, synced = 0
\* WHERE id = ? AND userId = ?, with new Date() as updatedAt (icon is written
\* the way name is)
updateAccount(db, account) ==
    [db EXCEPT !.accounts =
        {IF r.id = account.id /\ r.userId = account.userId
            THEN [r EXCEPT !.name = account.name, !.balance = account.balance,
                           !.updatedAt = now, !.synced = 0]
            ELSE r : r \in @}]

\* getAccountById: SELECT * FROM accounts WHERE id = ?
getAccountById(db, id) == Lookup(db.accounts, id)

\* getAccountsByUserId: SELECT * FROM accounts WHERE userId = ?
getAccountsByUserId(db, userId) == {r \in db.accounts : r.userId = userId}

\* getAllAccounts: SELECT * FROM accounts
getAllAccounts(db) == db.accounts

\* addTransaction of the transaction store: inserts the row as given
addTransaction(db, row) == InsertTransaction(db, row)

\* deleteTransaction of the transaction store: removes the row with this id,
\* a missing row is a no-op
deleteTransaction(db, id) ==
    [db EXCEPT !.transactions = {r \in @ : r.id # id}]

\* getAllTransactions of the transaction store
getAllTransactions(db) == db.transactions

\* getTransactionsByCategoryId of the transaction store
getTransactionsByCategoryId(db, categoryId) ==
    {r \in db.transactions : r.categoryId = categoryId}

\* `column = ?` of a WHERE clause: a NULL parameter matches no row
SqlEq(column, param) == param # Null /\ column = param

\* addAccount: the userId check, then INSERT INTO accounts (id is the NOT NULL
\* primary key)
addAccountThrows(db, account) ==
    \/ account.userId \in MissingValues
    \/ account.id = Null
    \/ \E r \in db.accounts : r.id = account.id

addAccount(db, account) ==
    [db EXCEPT !.accounts = @ \cup
        {[id |-> account.id, userId |-> account.userId, name |-> account.name,
          balance |-> account.balance, updatedAt |-> account.updatedAt, synced |-> 0]}]

deleteAccountThrows(accountId, userId) ==
    accountId \in MissingValues \/ userId \in MissingValues

\* DELETE FROM accounts WHERE id = ? AND userId = ?
deleteAccount(db, accountId, userId) ==
    [db EXCEPT !.accounts = {r \in @ : ~(r.id = accountId /\ r.userId = userId)}]

\* addCategory: INSERT INTO categories, nothing is checked before it
addCategoryThrows(db, category) ==
    \/ category.id = Null
    \/ \E r \in db.categories : r.id = category.id

addCategory(db, category) ==
    [db EXCEPT !.categories = @ \cup
        {[id |-> category.id, userId |-> category.userId, name |-> category.name,
          type |-> category.type, synced |-> 0]}]

\* SELECT * FROM categories WHERE userId = ?
getCategories(db, userId) == {r \in db.categories : SqlEq(r.userId, userId)}

\* SELECT * FROM categories WHERE id = ?
getCategoryById(db, categoryId) == {r \in db.categories : SqlEq(r.id, categoryId)}

\* SELECT * FROM categories WHERE type = ? AND userId = ?
getCategoriesByType(db, type, userId) ==
    {r \in db.categories : SqlEq(r.type, type) /\ SqlEq(r.userId, userId)}

\* SELECT * FROM categories
getAllCategories(db) == db.categories

\* UPDATE categories SET name = ?, type = ?, icon = ?, color = ?, description = ?,
\* synced = 0 WHERE id = ? AND userId = ? (icon, color and description are
\* written the way name is)
updateCategory(db, category) ==
    [db EXCEPT !.categories =
        {IF SqlEq(r.id, category.id) /\ SqlEq(r.userId, category.userId)
            THEN [r EXCEPT !.name = category.name, !.type = category.type, !.synced = 0]
            ELSE r : r \in @}]

\* DELETE FROM categories WHERE id = ? AND userId = ?
deleteCategory(db, categoryId, userId) ==
    [db EXCEPT !.categories =
        {r \in @ : ~(SqlEq(r.id, categoryId) /\ SqlEq(r.userId, userId))}]

\* UPDATE transactions SET categoryId = ?, synced = 0 WHERE categoryId = ? AND userId = ?
moveTransactionsBetweenCategories(db, fromCategoryId, toCategoryId, userId) ==
    [db EXCEPT !.transactions =
        {IF SqlEq(r.categoryId, fromCategoryId) /\ SqlEq(r.userId, userId)
            THEN [r EXCEPT !.categoryId = toCategoryId, !.synced = 0]
            ELSE r : r \in @}]

----
\* the default categories: id, name, type
DefaultCategoryRows ==
    { [id |-> "food_1", name |-> "Food & Dining", type |-> "expense"],
      [id |-> "transport_1", name |-> "Transportation", type |-> "expense"],
      [id |-> "shopping_1", name |-> "Shopping", type |-> "expense"],
      [id |-> "salary_1", name |-> "Salary", type |-> "income"],
      [id |-> "freelance_1", name |-> "Freelance", type |-> "income"],
      [id |-> "transfer_1", name |-> "Transfer", type |-> "transfer"] }

\* Schema: the tables of the database file and, of their columns, the ones a
\* migration adds or removes

\* the tables that hold no row: the shadow table of the subCategoryId rebuild,
\* the budgets and the goals
EmptyStore == [transactions_temp |-> {}, budgets |-> {}, goals |-> {}]

\* the tables setupDatabase creates (the first is the initialization marker table)
SetupTables ==
    {"init", "users", "user_interests", "categories", "transactions", "accounts",
     "budgets", "subscriptions", "goals"}

\* the migrated columns as the CREATE TABLE statements of setupDatabase name them
CurrentColumns ==
    { <<"users", "avatar">>, <<"users", "dateOfBirth">>, <<"users", "occupation">>,
      <<"categories", "description">>,
      <<"transactions", "title">>, <<"transactions", "linkedTransactionId">>,
      <<"budgets", "budgetLimit">>, <<"goals", "status">> }

CurrentSchema == [tables |-> SetupTables, columns |-> CurrentColumns]

\* PRAGMA table_info(table) names the column (no row for a table that is not there)
HasColumn(s, table, column) == <<table, column>> \in s.columns

\* CREATE TABLE IF NOT EXISTS, for every table of setupDatabase
CreateTables(s) ==
    [tables |-> s.tables \cup SetupTables,
     columns |-> s.columns \cup {tc \in CurrentColumns : tc[1] \notin s.tables}]

\* ALTER TABLE table ADD COLUMN column
AddColumnThrows(s, table, column) ==
    table \notin s.tables \/ HasColumn(s, table, column)

AddColumn(s, table, column) == [s EXCEPT !.columns = @ \cup {<<table, column>>}]

\* CREATE TABLE table (...)
CreateTableThrows(s, table) == table \in s.tables

CreateTable(s, table, columns) ==
    [tables |-> s.tables \cup {table},
     columns |-> s.columns \cup {<<table, c>> : c \in columns}]

\* DROP TABLE IF EXISTS table
DropTableIfExists(s, table) ==
    [tables |-> s.tables \ {table},
     columns |-> {tc \in s.columns : tc[1] # table}]

\* DROP TABLE table
DropTableThrows(s, table) == table \notin s.tables

\* INSERT INTO transactions_temp SELECT id, ..., title, ..., linkedTransactionId,
\* synced FROM transactions
CopyRowsThrows(s) ==
    \/ "transactions_temp" \notin s.tables
    \/ "transactions" \notin s.tables
    \/ ~HasColumn(s, "transactions", "title")
    \/ ~HasColumn(s, "transactions", "linkedTransactionId")

\* ALTER TABLE transactions_temp RENAME TO transactions
RenameThrows(s) ==
    "transactions_temp" \notin s.tables \/ "transactions" \in s.tables

Rename(s) ==
    [tables |-> (s.tables \ {"transactions_temp"}) \cup {"transactions"},
     columns |-> {tc \in s.columns : tc[1] # "transactions_temp"} \cup
                 {<<"transactions", tc[2]>> : tc \in {x \in s.columns : x[1] = "transactions_temp"}}]

\* INSERT OR IGNORE INTO categories, the six default rows for userId
insertDefaultData(db, userId) ==
    [db EXCEPT !.categories = @ \cup
        {[id |-> c.id, userId |-> userId, name |-> c.name, type |-> c.type, synced |-> 0] :
            c \in {d \in DefaultCategoryRows : \A r \in db.categories : r.id # d.id}}]

\* INSERT INTO init (initialized) VALUES (1)
InsertMarker(db) == [db EXCEPT !.initTable = Append(@, 1)]

----
\* A handler is a list of writes, awaited one after the other inside one
\* try block: the first write that throws ends the handler and every write
\* before it stays.

CmdInsert(row) == [k |-> "insert", row |-> row]
CmdAddTransaction(row) == [k |-> "addTransaction", row |-> row]
CmdAddToBalance(id, delta) == [k |-> "addToBalance", id |-> id, delta |-> delta]
CmdUpdateAccount(account) == [k |-> "updateAccount", account |-> account]
CmdDeleteTransaction(id) == [k |-> "deleteTransaction", id |-> id]
\* getAccountById(id), then updateAccount({...row, balance: row.balance + delta})
\* when a row was found
CmdUpdateFetched(id, delta) == [k |-> "updateFetched", id |-> id, delta |-> delta]
\* reading a field of undefined
CmdThrow == [k |-> "throw"]
CmdAddAccount(account) == [k |-> "addAccount", account |-> account]
CmdCreateTables == [k |-> "createTables"]
CmdAddColumn(table, column) == [k |-> "addColumn", table |-> table, column |-> column]
CmdCreateTable(table, columns) == [k |-> "createTable", table |-> table, columns |-> columns]
CmdDropTableIfExists(table) == [k |-> "dropTableIfExists", table |-> table]
CmdCopyRows == [k |-> "copyRows"]
CmdDropTable(table) == [k |-> "dropTable", table |-> table]
CmdRename == [k |-> "rename"]
CmdInsertDefaultData(userId) == [k |-> "insertDefaultData", userId |-> userId]
CmdInsertMarker == [k |-> "insertMarker"]
CmdDeleteAccount(accountId, userId) ==
    [k |-> "deleteAccount", accountId |-> accountId, userId |-> userId]

Throws(db, c) ==
    CASE c.k = "insert" -> InsertThrows(db, c.row)
      [] c.k = "addTransaction" -> InsertThrows(db, c.row)
      [] c.k = "updateAccount" -> updateAccountThrows(c.account)
      [] c.k = "updateFetched" -> c.id = Empty
      [] c.k = "throw" -> TRUE
      [] c.k = "addAccount" -> addAccountThrows(db, c.account)
      [] c.k = "addColumn" -> AddColumnThrows(db.schema, c.table, c.column)
      [] c.k = "createTable" -> CreateTableThrows(db.schema, c.table)
      [] c.k = "copyRows" -> CopyRowsThrows(db.schema)
      [] c.k = "dropTable" -> DropTableThrows(db.schema, c.table)
      [] c.k = "rename" -> RenameThrows(db.schema)
      [] c.k = "deleteAccount" -> deleteAccountThrows(c.accountId, c.userId)
      [] OTHER -> FALSE

Exec(db, c) ==
    CASE c.k = "insert" -> InsertTransaction(db, c.row)
      [] c.k = "addTransaction" -> addTransaction(db, c.row)
      [] c.k = "addToBalance" -> AddToBalance(db, c.id, c.delta)
      [] c.k = "updateAccount" -> updateAccount(db, c.account)
      [] c.k = "deleteTransaction" -> deleteTransaction(db, c.id)
      [] c.k = "updateFetched" ->
            IF getAccountById(db, c.id) = {} THEN db
            ELSE LET row == TheRow(db.accounts, c.id)
                 IN updateAccount(db, [row EXCEPT !.balance = @ + c.delta])
      [] c.k = "addAccount" -> addAccount(db, c.account)
      [] c.k = "createTables" -> [db EXCEPT !.schema = CreateTables(@)]
      [] c.k = "addColumn" -> [db EXCEPT !.schema = AddColumn(@, c.table, c.column)]
      [] c.k = "createTable" -> [db EXCEPT !.schema = CreateTable(@, c.table, c.columns)]
      [] c.k = "dropTableIfExists" -> [db EXCEPT !.schema = DropTableIfExists(@, c.table)]
      [] c.k = "copyRows" -> [db EXCEPT !.store.transactions_temp = db.transactions]
      [] c.k = "dropTable" -> [db EXCEPT !.schema = DropTableIfExists(@, c.table),
                                         !.transactions = {}]
      [] c.k = "rename" -> [db EXCEPT !.schema = Rename(@),
                                      !.transactions = db.store.transactions_temp,
                                      !.store.transactions_temp = {}]
      [] c.k = "insertDefaultData" -> insertDefaultData(db, c.userId)
      [] c.k = "insertMarker" -> InsertMarker(db)
      [] c.k = "deleteAccount" -> deleteAccount(db, c.accountId, c.userId)
      [] c.k = "deleteGoal" ->
            [db EXCEPT !.store.goals = {g \in @ : ~(g.id = c.id /\ g.userId = c.userId)}]

RECURSIVE RunSwallowing(_, _, _, _)
\* the writes as they would run if each were wrapped in a catch that only logs
RunSwallowing(db, cmds, i, fault) ==
    IF i > Len(cmds) THEN [db |-> db, ok |-> TRUE, at |-> 0]
    ELSE IF i = fault \/ Throws(db, cmds[i])
         THEN [RunSwallowing(db, cmds, i + 1, fault) EXCEPT !.at = i]
    ELSE RunSwallowing(Exec(db, cmds[i]), cmds, i + 1, fault)

RECURSIVE Run(_, _, _, _)
\* the store after the writes cmds[i..], where write number `fault` fails; `at`
\* is the number of the write that threw (0: none)
Run(db, cmds, i, fault) ==
    IF i > Len(cmds) THEN [db |-> db, ok |-> TRUE, at |-> 0]
    ELSE IF i = fault \/ Throws(db, cmds[i]) THEN [db |-> db, ok |-> FALSE, at |-> i]
    ELSE Run(Exec(db, cmds[i]), cmds, i + 1, fault)

DB ==
    [transactions |-> transactions, accounts |-> accounts, categories |-> categories,
     schema |-> schema, initTable |-> initTable, store |-> store]

\* write number `fault` of a handler fails (0: none is made to fail)
Inject(fault, cmds) ==
    /\ fault <= Len(cmds)
    /\ fault # 0 => faults < MaxFaults
    /\ faults' = IF fault = 0 THEN faults ELSE faults + 1

Outcome(op, r) == [op |-> op, res |-> IF r.ok THEN "ok" ELSE "failed"]
Rejected(op) == [op |-> op, res |-> "rejected"]

----
\* Rows

Today == 1

\* name of the account the form creates when the user has none
DefaultAccountName == "Cash"

AccountRow(id, userId, balance) ==
    [id |-> id, userId |-> userId, name |-> DefaultAccountName, balance |-> balance,
     updatedAt |-> now, synced |-> 0]

TransactionRow(id, type, categoryId, amount, accountId, date, linked) ==
    [id |-> id, userId |-> SessionUser, type |-> type, categoryId |-> categoryId,
     amount |-> amount, accountId |-> accountId, date |-> date,
     linkedTransactionId |-> linked, synced |-> 0]

CanRecord == now < Tick * MaxRecords

----
\* AddTransactionScreen

\* loadAccounts: the user's accounts, else the accounts of user 'default',
\* else a new Cash account; when the read fails, an account that is in no table
LoadAccounts(readFails) ==
    LET result == getAccountsByUserId(DB, SessionUser)
        defaultAccounts == getAccountsByUserId(DB, "default")
        defaultAccount == AccountRow(MakeId("default_account_", now), SessionUser, 0)
    IN  /\ IF readFails
              THEN formAccounts' = {EmergencyAccountId} /\ UNCHANGED accounts
           ELSE IF result # {}
              THEN formAccounts' = {r.id : r \in result} /\ UNCHANGED accounts
           ELSE IF defaultAccounts # {}
              THEN formAccounts' = {r.id : r \in defaultAccounts} /\ UNCHANGED accounts
           ELSE /\ formAccounts' = {defaultAccount.id}
                /\ accounts' = accounts \cup {defaultAccount}
        /\ readFails => faults < MaxFaults
        /\ faults' = IF readFails THEN faults + 1 ELSE faults
        /\ last' = [op |-> "loadAccounts", res |-> IF readFails THEN "failed" ELSE "ok"]
        /\ UNCHANGED <<transactions, now, allTx, budget, goalAccounts, storeVars>>

\* handleSubmit, the validation before the try block
SubmitRejected(type, amount, categoryId, accountId, fromAccountId, toAccountId) ==
    \/ amount = Empty
    \/ /\ type = "transfer"
       /\ \/ fromAccountId = Empty
          \/ toAccountId = Empty
          \/ fromAccountId = toAccountId
    \/ /\ type # "transfer"
       /\ (categoryId = Empty \/ accountId = Empty)

\* handleSubmit, transfer branch: the two legs, then the two balances
TransferWrites(amount, fromAccountId, toAccountId, date) ==
    LET debitTransactionId == MakeId("trans_debit_", now)
        creditTransactionId == MakeId("trans_credit_", now)
        debitTransaction ==
            TransactionRow(debitTransactionId, "debit", TransferCategoryId,
                           ParseFloat(amount), fromAccountId, date, creditTransactionId)
        creditTransaction ==
            TransactionRow(creditTransactionId, "credit", TransferCategoryId,
                           ParseFloat(amount), toAccountId, date, debitTransactionId)
    IN  << CmdInsert(debitTransaction),
           CmdInsert(creditTransaction),
           CmdAddToBalance(fromAccountId, 0 - ParseFloat(amount)),
           CmdAddToBalance(toAccountId, ParseFloat(amount)) >>

\* handleSubmit, income/expense branch: the row, then the balance
SimpleWrites(type, amount, categoryId, accountId, date) ==
    LET transaction ==
            TransactionRow(MakeId("trans_", now), type, categoryId,
                           ParseFloat(amount), accountId, date, Null)
        amountValue == IF type = "expense" THEN 0 - ParseFloat(amount)
                       ELSE ParseFloat(amount)
    IN  << CmdInsert(transaction), CmdAddToBalance(accountId, amountValue) >>

HandleSubmit(type, amount, categoryId, accountId, fromAccountId, toAccountId, date, fault) ==
    /\ UNCHANGED <<formAccounts, allTx, budget, goalAccounts, storeVars>>
    /\ IF SubmitRejected(type, amount, categoryId, accountId, fromAccountId, toAccountId)
       THEN /\ last' = Rejected("handleSubmit")
            /\ UNCHANGED <<transactions, accounts, now, faults>>
       ELSE /\ CanRecord
            /\ LET cmds == IF type = "transfer"
                           THEN TransferWrites(amount, fromAccountId, toAccountId, date)
                           ELSE SimpleWrites(type, amount, categoryId, accountId, date)
                   r == Run(DB, cmds, 1, fault)
               IN  /\ Inject(fault, cmds)
                   /\ transactions' = r.db.transactions
                   /\ accounts' = r.db.accounts
                   /\ last' = Outcome("handleSubmit", r)
            /\ now' = now + Tick

\* the category the form holds for a type: the first loaded one, or none
FormCategories(type) ==
    CASE type = "expense" -> {ExpenseCategoryId, Empty}
      [] type = "income" -> {IncomeCategoryId, Empty}
      [] OTHER -> {Empty}

\* the form as the user can fill it in; a rejected submit reads neither the
\* date nor the store
SubmitSimple(dates) ==
    \E type \in {"expense", "income"}, amount \in AmountInputs,
       accountId \in formAccounts \cup {Empty} :
        \E categoryId \in FormCategories(type) :
            IF SubmitRejected(type, amount, categoryId, accountId, Empty, Empty)
            THEN HandleSubmit(type, amount, categoryId, accountId, Empty, Empty, Today, 0)
            ELSE \E date \in dates, fault \in Faults :
                    HandleSubmit(type, amount, categoryId, accountId, Empty, Empty, date, fault)

SubmitTransfer(dates) ==
    \E amount \in AmountInputs, fromAccountId \in formAccounts \cup {Empty},
       toAccountId \in formAccounts \cup {Empty} :
        IF SubmitRejected("transfer", amount, Empty, Empty, fromAccountId, toAccountId)
        THEN HandleSubmit("transfer", amount, Empty, Empty, fromAccountId, toAccountId, Today, 0)
        ELSE \E date \in dates, fault \in Faults :
                HandleSubmit("transfer", amount, Empty, Empty, fromAccountId, toAccountId, date, fault)

----
\* AllTransactionsScreen

\* loadData: every transaction and every account, whoever owns them
LoadedData(db) ==
    [transactions |-> getAllTransactions(db), accounts |-> getAllAccounts(db)]

AllTxLoadData ==
    /\ allTx' = LoadedData(DB)
    /\ last' = [op |-> "loadData", res |-> "ok"]
    /\ UNCHANGED <<transactions, accounts, now, formAccounts, budget, goalAccounts, faults, storeVars>>

\* updateAccount({...snapshot[accountId], balance: snapshot[accountId].balance + delta});
\* reading .balance of a missing snapshot entry throws
SnapshotUpdate(snapshot, accountId, delta) ==
    IF Lookup(snapshot, accountId) = {} THEN CmdThrow
    ELSE CmdUpdateAccount([TheRow(snapshot, accountId) EXCEPT !.balance = @ + delta])

\* the sign that undoes a transaction of this type
ReversalSign(type) ==
    CASE type \in {"debit", "expense"} -> 1
      [] type \in {"credit", "income"} -> 0 - 1

\* handleDeleteTransaction: the linked leg found in the loaded list is deleted
\* and reversed first, then the transaction itself is reversed and deleted
AllTxDeleteWrites(transaction) ==
    LET isTransferTransaction == transaction.type \in {"debit", "credit"}
        linked == Lookup(allTx.transactions, transaction.linkedTransactionId)
        linkedWrites ==
            IF isTransferTransaction
               /\ transaction.linkedTransactionId \notin {Null, Empty}
               /\ linked # {}
            THEN LET linkedTransaction ==
                         TheRow(allTx.transactions, transaction.linkedTransactionId)
                 IN  <<CmdDeleteTransaction(linkedTransaction.id)>> \o
                     (IF linkedTransaction.type \in {"debit", "credit"}
                      THEN <<SnapshotUpdate(allTx.accounts, linkedTransaction.accountId,
                                 ReversalSign(linkedTransaction.type) * linkedTransaction.amount)>>
                      ELSE <<>>)
            ELSE <<>>
        ownWrites ==
            IF transaction.type \in {"debit", "credit", "expense", "income"}
            THEN <<SnapshotUpdate(allTx.accounts, transaction.accountId,
                       ReversalSign(transaction.type) * transaction.amount)>>
            ELSE <<>>
    IN  linkedWrites \o ownWrites \o <<CmdDeleteTransaction(transaction.id)>>

AllTxHandleDeleteTransaction(transaction, fault) ==
    LET cmds == AllTxDeleteWrites(transaction)
        r == Run(DB, cmds, 1, fault)
    IN  /\ Inject(fault, cmds)
        /\ transactions' = r.db.transactions
        /\ accounts' = r.db.accounts
        \* loadData() runs again after a successful delete only
        /\ allTx' = IF r.ok THEN LoadedData(r.db) ELSE allTx
        /\ last' = Outcome("AllTransactions.handleDeleteTransaction", r)
        /\ UNCHANGED <<now, formAccounts, budget, goalAccounts, storeVars>>

AllTxDelete ==
    \E transaction \in allTx.transactions, fault \in Faults :
        AllTxHandleDeleteTransaction(transaction, fault)

----
\* TransactionDetailScreen

\* handleDelete: deleteTransaction(id) and nothing else
DetailHandleDelete(id, fault) ==
    LET cmds == <<CmdDeleteTransaction(id)>>
        r == Run(DB, cmds, 1, fault)
    IN  /\ Inject(fault, cmds)
        /\ transactions' = r.db.transactions
        /\ accounts' = r.db.accounts
        /\ last' = Outcome("TransactionDetail.handleDelete", r)
        /\ UNCHANGED <<now, formAccounts, allTx, budget, goalAccounts, storeVars>>

\* the screen offers the delete button once getTransactionById found the row
DetailDelete ==
    \E t \in transactions, fault \in Faults : DetailHandleDelete(t.id, fault)

----
\* BudgetCategoryDetailsScreen, opened for one budget

BudgetCategoryId == ExpenseCategoryId
BudgetUserId == SessionUser
BudgetMonth == 1

\* month and year of a date: every date of Dates lies in a month of its own
MonthOf(date) == date

\* fetchData: the category's transactions of the budget's user and month,
\* and every account
BudgetFetchData ==
    /\ budget' =
         [transactions |->
              {t \in getTransactionsByCategoryId(DB, BudgetCategoryId) :
                   t.userId = BudgetUserId /\ MonthOf(t.date) = BudgetMonth},
          accounts |-> getAllAccounts(DB)]
    /\ last' = [op |-> "fetchData", res |-> "ok"]
    /\ UNCHANGED <<transactions, accounts, now, formAccounts, allTx, goalAccounts, faults, storeVars>>

\* handleDeleteTransaction: the amount is added back to the account of the
\* snapshot, then the row is deleted
BudgetDeleteWrites(transaction) ==
    (IF Lookup(budget.accounts, transaction.accountId) # {}
     THEN <<SnapshotUpdate(budget.accounts, transaction.accountId, transaction.amount)>>
     ELSE <<>>) \o <<CmdDeleteTransaction(transaction.id)>>

BudgetHandleDeleteTransaction(transaction, fault) ==
    LET cmds == BudgetDeleteWrites(transaction)
        r == Run(DB, cmds, 1, fault)
    IN  /\ Inject(fault, cmds)
        /\ transactions' = r.db.transactions
        /\ accounts' = r.db.accounts
        \* only the local list is updated, the accounts are not loaded again
        /\ budget' = IF r.ok
                     THEN [budget EXCEPT !.transactions =
                               {t \in @ : t.id # transaction.id}]
                     ELSE budget
        /\ last' = Outcome("BudgetCategoryDetails.handleDeleteTransaction", r)
        /\ UNCHANGED <<now, formAccounts, allTx, goalAccounts, storeVars>>

BudgetDelete ==
    \E transaction \in budget.transactions, fault \in Faults :
        BudgetHandleDeleteTransaction(transaction, fault)

----
\* GoalDetailsScreen, opened for the goal that owns GoalAccountId

\* loadAccounts runs on mount, while the goal state is still null, so the
\* filter on goal?.accountId removes nothing
GoalLoadAccounts ==
    /\ goalAccounts' = {acc \in getAccountsByUserId(DB, SessionUser) : acc.id # Null}
    /\ last' = [op |-> "GoalDetails.loadAccounts", res |-> "ok"]
    /\ UNCHANGED <<transactions, accounts, now, formAccounts, allTx, budget, faults, storeVars>>

AssignRejected(amount, selectedAccountId) ==
    \/ amount = Empty
    \/ selectedAccountId = Empty
    \/ ParseFloat(amount) <= 0

\* handleAssignMoney: a debit on the selected account, a credit on the goal
\* account that points at the debit, the selected account's balance from the
\* snapshot, the goal account's balance from a fresh read
AssignWrites(amount, selectedAccountId) ==
    LET transferAmount == ParseFloat(amount)
        transactionId == MakeId("trans_", now)
        debit == TransactionRow(transactionId, "debit", Empty, transferAmount,
                                selectedAccountId, Today, Null)
        credit == TransactionRow(MakeId("trans_", now + 1), "credit", Empty,
                                 transferAmount, GoalAccountId, Today, transactionId)
        selectedWrites ==
            IF Lookup(goalAccounts, selectedAccountId) # {}
            THEN <<CmdUpdateAccount(
                     [TheRow(goalAccounts, selectedAccountId) EXCEPT
                         !.userId = SessionUser, !.synced = 0,
                         !.balance = @ - transferAmount])>>
            ELSE <<>>
    IN  <<CmdAddTransaction(debit), CmdAddTransaction(credit)>> \o selectedWrites
        \o <<CmdUpdateFetched(GoalAccountId, transferAmount)>>

HandleAssignMoney(amount, selectedAccountId, fault) ==
    /\ UNCHANGED <<formAccounts, allTx, budget, goalAccounts, storeVars>>
    /\ IF AssignRejected(amount, selectedAccountId)
       THEN /\ last' = Rejected("handleAssignMoney")
            /\ UNCHANGED <<transactions, accounts, now, faults>>
       ELSE /\ CanRecord
            /\ LET cmds == AssignWrites(amount, selectedAccountId)
                   r == Run(DB, cmds, 1, fault)
               IN  /\ Inject(fault, cmds)
                   /\ transactions' = r.db.transactions
                   /\ accounts' = r.db.accounts
                   /\ last' = Outcome("handleAssignMoney", r)
            /\ now' = now + Tick

AssignMoney ==
    \E amount \in AmountInputs,
       selectedAccountId \in {acc.id : acc \in goalAccounts} \cup {Empty},
       fault \in Faults :
        HandleAssignMoney(amount, selectedAccountId, fault)

----
\* Account store and category store, called for either user of the device

\* number of store calls in a run
MaxCalls == 2

\* goals a user keeps at a time
MaxGoals == 1

\* a second user who signs in on the same device
OtherUser == "u2"

Users == {SessionUser, OtherUser}

\* accounts.id: the two stored accounts and an id that is still free
StoreAccountIds == AccountIds \cup {"a2"}

\* categories.id of a category the second user created, and a free id
CustomCategoryId == "cat_1"
FreeCategoryId == "cat_2"

CategoryRow(id, userId, name, type) ==
    [id |-> id, userId |-> userId, name |-> name, type |-> type, synced |-> 0]

\* the default categories as insertDefaultData stores them for userId
DefaultCategories(userId) ==
    {CategoryRow(c.id, userId, c.name, c.type) : c \in DefaultCategoryRows}

\* no store operation has been called yet
NoCall ==
    [op |-> "none", user |-> Empty, args |-> <<>>, res |-> "ok", rows |-> {},
     again |-> FALSE]

CanCall == now < MaxCalls

\* one call of a store operation for `user`: the operation throws and leaves the
\* tables alone, or runs its one statement; `again` tells a call that repeats
\* the one before it, which succeeded
StoreCall(op, user, args, throws, db, rows) ==
    /\ CanCall
    /\ now' = now + 1
    /\ call' = [op |-> op, user |-> user, args |-> args,
                res |-> IF throws THEN "failed" ELSE "ok",
                rows |-> IF throws THEN {} ELSE rows,
                again |-> call.op = op /\ call.args = args /\ call.res = "ok"]
    /\ IF throws
       THEN UNCHANGED <<transactions, accounts, categories>>
       ELSE /\ transactions' = db.transactions
            /\ accounts' = db.accounts
            /\ categories' = db.categories
    /\ UNCHANGED <<formAccounts, allTx, budget, goalAccounts, goalScreen, faults, last,
                   initTable, schema, store, manage>>

\* the Account objects a caller can pass: the id of an own account, of the
\* other user's account, a free id or none; updatedAt is the caller's, and the
\* same in a repeated call
AccountArgs(ids, userIds) ==
    [id : ids, userId : userIds, name : {DefaultAccountName}, balance : {0, 1},
     updatedAt : {0}, synced : {0, 1}]

\* the Category objects a caller can pass
CategoryArgs(ids, userIds) ==
    [id : ids, userId : userIds, name : {"Food & Dining", "Gifts"}, type : {"expense"}]

ReadOps ==
    {"getAccountsByUserId", "getAccountById", "getAllAccounts", "getCategories",
     "getCategoryById", "getCategoriesByType", "getAllCategories"}

\* what a read is asked for: an id, a type, or nothing
ReadArgs(op) ==
    CASE op = "getAccountById" -> AccountIds \cup {Empty}
      [] op = "getCategoryById" -> {ExpenseCategoryId, CustomCategoryId}
      [] op = "getCategoriesByType" -> {"expense"}
      [] OTHER -> {Empty}

\* a new account: a stored id, a free id or none, for a user or for none
AccountStoreAdd ==
    \E account \in AccountArgs({"a1", "a2"} \cup MissingValues,
                               {SessionUser} \cup MissingValues) :
        /\ account.balance = 1 /\ account.synced = 0
        /\ StoreCall("addAccount", account.userId, account,
                     addAccountThrows(DB, account), addAccount(DB, account), {})

AccountStoreUpdate ==
    \E account \in AccountArgs(StoreAccountIds \cup {Empty}, Users \cup {Empty}) :
        StoreCall("updateAccount", account.userId, account,
                  updateAccountThrows(account), updateAccount(DB, account), {})

AccountStoreDelete ==
    \E accountId \in StoreAccountIds \cup {Empty}, userId \in Users \cup {Empty} :
        StoreCall("deleteAccount", userId, <<accountId, userId>>,
                  deleteAccountThrows(accountId, userId),
                  deleteAccount(DB, accountId, userId), {})

CategoryStoreAdd ==
    \E category \in CategoryArgs({ExpenseCategoryId, FreeCategoryId} \cup MissingValues,
                                 {SessionUser} \cup MissingValues) :
        /\ category.name = "Gifts"
        /\ StoreCall("addCategory", category.userId, category,
                     addCategoryThrows(DB, category), addCategory(DB, category), {})

CategoryStoreUpdate ==
    \E category \in CategoryArgs({ExpenseCategoryId, CustomCategoryId, FreeCategoryId, Null},
                                 Users \cup {Null}) :
        StoreCall("updateCategory", category.userId, category,
                  FALSE, updateCategory(DB, category), {})

CategoryStoreDelete ==
    \E categoryId \in {ExpenseCategoryId, CustomCategoryId, FreeCategoryId, Null},
       userId \in Users \cup {Null} :
        StoreCall("deleteCategory", userId, <<categoryId, userId>>,
                  FALSE, deleteCategory(DB, categoryId, userId), {})

CategoryStoreMove ==
    \E fromCategoryId \in {ExpenseCategoryId, IncomeCategoryId, CustomCategoryId},
       toCategoryId \in {ExpenseCategoryId, CustomCategoryId, Null},
       userId \in Users :
        StoreCall("moveTransactionsBetweenCategories", userId,
                  <<fromCategoryId, toCategoryId, userId>>, FALSE,
                  moveTransactionsBetweenCategories(DB, fromCategoryId, toCategoryId, userId),
                  {})

\* a read made for `user`, who passes their own id where a user id is asked for;
\* getAccountsByUserId and getAccountById throw when their argument is missing
StoreRead ==
    \E op \in ReadOps, user \in Users : \E arg \in ReadArgs(op) :
        StoreCall(op, user, arg,
                  CASE op = "getAccountsByUserId" -> user \in MissingValues
                    [] op = "getAccountById" -> arg \in MissingValues
                    [] OTHER -> FALSE,
                  DB,
                  CASE op = "getAccountsByUserId" -> getAccountsByUserId(DB, user)
                    [] op = "getAccountById" -> getAccountById(DB, arg)
                    [] op = "getAllAccounts" -> getAllAccounts(DB)
                    [] op = "getCategories" -> getCategories(DB, user)
                    [] op = "getCategoryById" -> getCategoryById(DB, arg)
                    [] op = "getCategoriesByType" -> getCategoriesByType(DB, arg, user)
                    [] op = "getAllCategories" -> getAllCategories(DB))

----
\* ManageAccountsScreen

\* the screen with its modal closed: closeModal resets the form
\* (editingAccount holds the account being edited, or nothing)
ManageClosed(rows) ==
    [accounts |-> rows, isModalVisible |-> FALSE, editingAccount |-> {},
     formData |-> [name |-> Empty, balance |-> Empty]]

\* what the balance field takes from the keyboard: digits and a decimal point
\* (an emptied field, which parseFloat turns into NaN, is left out)
BalanceInputs == {"0", "1"}

\* loadAccounts: the accounts of the signed-in user
ManageLoadAccounts ==
    /\ manage' = [manage EXCEPT !.accounts = getAccountsByUserId(DB, SessionUser)]
    /\ last' = [op |-> "ManageAccounts.loadAccounts", res |-> "ok"]
    /\ UNCHANGED <<transactions, accounts, now, formAccounts, allTx, budget, goalAccounts, goalScreen,
                   faults, categories, initTable, schema, store, call>>

\* openEditModal: the form starts from the listed account
OpenEditModal ==
    \E account \in manage.accounts :
        /\ manage' = [manage EXCEPT
                        !.isModalVisible = TRUE,
                        !.editingAccount = {account},
                        !.formData = [name |-> account.name,
                                      balance |-> ToString(account.balance)]]
        /\ last' = [op |-> "openEditModal", res |-> "ok"]
        /\ UNCHANGED <<transactions, accounts, now, formAccounts, allTx, budget, goalAccounts, goalScreen,
                       faults, categories, initTable, schema, store, call>>

\* openAddModal: an empty form for a new account
OpenAddModal ==
    /\ manage' = [ManageClosed(manage.accounts) EXCEPT !.isModalVisible = TRUE]
    /\ last' = [op |-> "openAddModal", res |-> "ok"]
    /\ UNCHANGED <<transactions, accounts, now, formAccounts, allTx, budget, goalAccounts, goalScreen,
                   faults, categories, initTable, schema, store, call>>

\* what the user types into the name and balance fields
SetFormData ==
    \E name \in {DefaultAccountName, "Bank"}, balance \in BalanceInputs :
        /\ manage.isModalVisible
        /\ manage' = [manage EXCEPT !.formData = [name |-> name, balance |-> balance]]
        /\ last' = [op |-> "setFormData", res |-> "ok"]
        /\ UNCHANGED <<transactions, accounts, now, formAccounts, allTx, budget, goalAccounts, goalScreen,
                       faults, categories, initTable, schema, store, call>>

\* the handler's store call, then loadAccounts and closeModal; a failed call
\* leaves the modal open
ManageWrite(op, cmds, fault) ==
    LET r == Run(DB, cmds, 1, fault)
    IN  /\ CanCall
        /\ now' = now + 1
        /\ Inject(fault, cmds)
        /\ accounts' = r.db.accounts
        /\ manage' = IF r.ok THEN ManageClosed(getAccountsByUserId(r.db, SessionUser))
                     ELSE manage
        /\ last' = Outcome(op, r)
        /\ UNCHANGED <<transactions, formAccounts, allTx, budget, goalAccounts, goalScreen,
                       categories, initTable, schema, store, call>>

\* handleEditAccount: the edited account with the form's name and balance
HandleEditAccount(fault) ==
    /\ manage.isModalVisible
    /\ manage.editingAccount # {}
    /\ LET editingAccount == CHOOSE account \in manage.editingAccount : TRUE
           updatedAccount ==
               [editingAccount EXCEPT
                    !.name = manage.formData.name,
                    !.balance = ParseFloat(manage.formData.balance),
                    !.updatedAt = now]
       IN  ManageWrite("handleEditAccount", <<CmdUpdateAccount(updatedAccount)>>, fault)

AddRejected == manage.formData.name = Empty \/ manage.formData.balance = Empty

\* handleAddAccount: a new account acc_<now> with the form's name and balance
HandleAddAccount(fault) ==
    /\ manage.isModalVisible
    /\ manage.editingAccount = {}
    /\ IF AddRejected
       THEN /\ fault = 0
            /\ last' = Rejected("handleAddAccount")
            /\ UNCHANGED <<transactions, accounts, now, formAccounts, allTx, budget,
                           goalAccounts, goalScreen, faults, categories, initTable, schema, store, manage, call>>
       ELSE LET newAccount ==
                    [id |-> MakeId("acc_", now), userId |-> SessionUser,
                     name |-> manage.formData.name,
                     balance |-> ParseFloat(manage.formData.balance),
                     updatedAt |-> now, synced |-> 0]
            IN  ManageWrite("handleAddAccount", <<CmdAddAccount(newAccount)>>, fault)

\* handleDeleteAccount on a listed account
HandleDeleteAccount(id, fault) ==
    ManageWrite("handleDeleteAccount", <<CmdDeleteAccount(id, SessionUser)>>, fault)

----
\* The ledger: accounts without transactions, every screen before its first load

Init ==
    /\ now = 0
    /\ transactions = {}
    /\ accounts = {AccountRow(id, SessionUser, 0) : id \in AccountIds}
    /\ categories = DefaultCategories(SessionUser)
    /\ initTable = <<1>>
    /\ schema = CurrentSchema
    /\ store = [EmptyStore EXCEPT !.goals =
                  { [id |-> "goal_0", userId |-> SessionUser, targetAmount |-> 2,
                     targetDate |-> [year |-> 2026, month |-> 1],
                     accountId |-> GoalAccountId, includeBalance |-> FALSE,
                     monthlyContribution |-> 1] }]
    /\ manage = ManageClosed({})
    /\ goalScreen = [accounts |-> {}, goals |-> {}, targetAmount |-> "",
                     targetDate |-> [year |-> 2026, month |-> 0], accountId |-> Empty,
                     includeBalance |-> FALSE, monthlyContribution |-> 0]
    /\ call = NoCall
    /\ formAccounts = {}
    /\ allTx = [transactions |-> {}, accounts |-> {}]
    /\ budget = [transactions |-> {}, accounts |-> {}]
    /\ goalAccounts = {}
    /\ faults = 0
    /\ last = [op |-> "init", res |-> "ok"]

FormNext(dates) ==
    \/ \E readFails \in BOOLEAN : LoadAccounts(readFails)
    \/ SubmitSimple(dates)
    \/ SubmitTransfer(dates)

\* the add-transaction form and the transaction list
Next ==
    \/ FormNext({Today})
    \/ AllTxLoadData
    \/ AllTxDelete

Spec == Init /\ [][Next]_vars

\* the add-transaction form and the transaction details
SpecDetail ==
    Init /\ [][\/ FormNext({Today})
               \/ DetailDelete]_vars

\* the add-transaction form and the budget details
SpecBudget ==
    Init /\ [][\/ FormNext(Dates)
               \/ BudgetFetchData
               \/ BudgetDelete]_vars

\* the goal details and the transaction list
SpecGoal ==
    Init /\ [][\/ GoalLoadAccounts
               \/ AssignMoney
               \/ AllTxLoadData
               \/ AllTxDelete]_vars

\* a device two users have signed in on: each owns an account, a transaction
\* and categories; the rows are all dirty or have all been synced
InitStore ==
    /\ now = 0
    /\ \E s \in {0, 1} :
        /\ accounts =
              { [AccountRow("a1", SessionUser, 0) EXCEPT !.synced = s],
                [AccountRow("g1", OtherUser, 1) EXCEPT !.synced = s] }
        /\ categories =
              { [c EXCEPT !.synced = s] :
                    c \in DefaultCategories(SessionUser) \cup
                          {CategoryRow(CustomCategoryId, OtherUser, "Gifts", "income")} }
        /\ transactions =
              { [TransactionRow("trans_u1", "expense", ExpenseCategoryId, 1, "a1", Today, Null)
                    EXCEPT !.synced = s],
                [TransactionRow("trans_u1b", "income", IncomeCategoryId, 1, "a1", Today, Null)
                    EXCEPT !.synced = s],
                [TransactionRow("trans_u2", "income", CustomCategoryId, 1, "g1", Today, Null)
                    EXCEPT !.userId = OtherUser, !.synced = s] }
    /\ initTable = <<1>>
    /\ schema = CurrentSchema
    /\ store = EmptyStore
    /\ manage = ManageClosed({})
    /\ goalScreen = [accounts |-> {}, goals |-> {}, targetAmount |-> "",
                     targetDate |-> [year |-> 2026, month |-> 0], accountId |-> Empty,
                     includeBalance |-> FALSE, monthlyContribution |-> 0]
    /\ call = NoCall
    /\ formAccounts = {}
    /\ allTx = [transactions |-> {}, accounts |-> {}]
    /\ budget = [transactions |-> {}, accounts |-> {}]
    /\ goalAccounts = {}
    /\ faults = 0
    /\ last = [op |-> "init", res |-> "ok"]

\* the two stores as any caller can use them
StoreNext ==
    \/ AccountStoreAdd
    \/ AccountStoreUpdate
    \/ AccountStoreDelete
    \/ CategoryStoreAdd
    \/ CategoryStoreUpdate
    \/ CategoryStoreDelete
    \/ CategoryStoreMove
    \/ StoreRead

SpecStore == InitStore /\ [][StoreNext]_vars

\* ManageCategoriesScreen.handleDeleteCategory, confirmed for a category of the
\* list: deleteCategory(id, userId), then loadCategories, whose result the
\* screen keeps (call.rows); a failure of either leaves an alert
HandleDeleteCategory ==
    \E category \in getCategories(DB, SessionUser), throws \in BOOLEAN :
        StoreCall("handleDeleteCategory", SessionUser, category.id, throws,
                  deleteCategory(DB, category.id, SessionUser),
                  getCategories(deleteCategory(DB, category.id, SessionUser), SessionUser))

\* the budget details screen next to the stores
SpecSpend == InitStore /\ [][StoreNext \/ BudgetFetchData]_vars

\* the category screen next to the stores
SpecCategories == InitStore /\ [][StoreNext \/ HandleDeleteCategory]_vars

----
\* setupDatabase and the migrations

\* the statement when the check before it finds the change missing
When(cond, cmds) == IF cond THEN cmds ELSE <<>>

\* the rebuild of transactions without subCategoryId: the last execAsync holds
\* two statements
RemoveSubCategoryId ==
    << CmdCreateTable("transactions_temp", {"title", "linkedTransactionId"}),
       CmdCopyRows,
       CmdDropTable("transactions"),
       CmdRename >>

\* migrateDatabase: the statements it runs on a database whose schema is s.
\* Each check reads a table no earlier statement of the run has changed, but
\* for transactionColumns, which is read before title is added and used again
\* for linkedTransactionId and subCategoryId.
MigrateStatements(s) ==
    When(~HasColumn(s, "users", "avatar"), <<CmdAddColumn("users", "avatar")>>)
    \o When(~HasColumn(s, "users", "dateOfBirth"), <<CmdAddColumn("users", "dateOfBirth")>>)
    \o When(~HasColumn(s, "users", "occupation"), <<CmdAddColumn("users", "occupation")>>)
    \o When("user_interests" \notin s.tables, <<CmdCreateTable("user_interests", {})>>)
    \o When(~HasColumn(s, "categories", "description"),
            <<CmdAddColumn("categories", "description")>>)
    \o When(~HasColumn(s, "transactions", "title"), <<CmdAddColumn("transactions", "title")>>)
    \o When(~HasColumn(s, "budgets", "budgetLimit"), <<CmdAddColumn("budgets", "budgetLimit")>>)
    \o When(~HasColumn(s, "transactions", "linkedTransactionId"),
            <<CmdAddColumn("transactions", "linkedTransactionId")>>)
    \o When("subcategories" \in s.tables, <<CmdDropTableIfExists("subcategories")>>)
    \o When(HasColumn(s, "transactions", "subCategoryId"), RemoveSubCategoryId)
    \o When(~HasColumn(s, "goals", "status"), <<CmdAddColumn("goals", "status")>>)

\* migrateRemoveSubcategories: the statements it runs on a schema s
RemoveSubcategoriesStatements(s) ==
    When("subcategories" \in s.tables, <<CmdDropTableIfExists("subcategories")>>)
    \o When(HasColumn(s, "transactions", "subCategoryId"), RemoveSubCategoryId)

\* the initialization check as it would be if the marker were not read
AlwaysSeeds(marker) == TRUE

\* SELECT initialized FROM init LIMIT 1: no row, or a row holding 0
NotInitialized(marker) == marker = <<>> \/ marker[1] = 0

\* setupDatabase: the tables, the migrations, then the default data and the
\* marker when the marker is not set
SetupStatements(userId) ==
    <<CmdCreateTables>>
    \o MigrateStatements(CreateTables(schema))
    \o When(NotInitialized(initTable), <<CmdInsertDefaultData(userId), CmdInsertMarker>>)

\* a run of statements against the database file; it throws at the statement
\* that fails and keeps what the statements before it did
SetupRun(op, userId, cmds, fault, migrates) ==
    LET r == Run(DB, cmds, 1, fault)
    IN  /\ Inject(fault, cmds)
        /\ schema' = r.db.schema
        /\ transactions' = r.db.transactions
        /\ store' = r.db.store
        /\ categories' = r.db.categories
        /\ initTable' = r.db.initTable
        /\ last' = [op |-> op, res |-> IF r.ok THEN "ok" ELSE "failed", userId |-> userId,
                    migrated |-> migrates /\ (fault = 0 \/ fault > 1),
                    migrationFailed |->
                        migrates /\ r.at \in 2..(1 + Len(MigrateStatements(CreateTables(schema)))),
                    seeded |-> r.ok /\ NotInitialized(initTable),
                    retried |-> NotInitialized(initTable) /\ categories # {}]
        /\ UNCHANGED <<accounts, now, formAccounts, allTx, budget, goalAccounts, goalScreen, manage, call>>

SetupDatabase(userId, fault) ==
    SetupRun("setupDatabase", userId, SetupStatements(userId), fault, TRUE)

MigrateRemoveSubcategories(fault) ==
    SetupRun("migrateRemoveSubcategories", Empty, RemoveSubcategoriesStatements(schema),
             fault, FALSE)

\* the migrated columns in the order migrateDatabase adds them
AddedColumns ==
    << <<"users", "avatar">>, <<"users", "dateOfBirth">>, <<"users", "occupation">>,
       <<"categories", "description">>, <<"transactions", "title">>,
       <<"budgets", "budgetLimit">>, <<"transactions", "linkedTransactionId">>,
       <<"goals", "status">> >>

\* the schema an earlier version of the app left: the first k migrated columns,
\* with or without the subcategories table and the subCategoryId column
LegacySchema(k, legacyTables, legacyColumns) ==
    [tables |-> SetupTables \cup legacyTables,
     columns |-> {AddedColumns[i] : i \in 1..k} \cup legacyColumns]

\* a device before the first start, or a device an earlier version of the app
\* was set up on for the session user, or had begun to set up when it stopped
\* before the default data
InitSetup ==
    /\ now = 0
    /\ \/ /\ schema = [tables |-> {}, columns |-> {}]
          /\ categories = {}
          /\ initTable = <<>>
       \/ /\ \E k \in 0..Len(AddedColumns), legacyTables \in SUBSET {"subcategories"},
                   legacyColumns \in SUBSET {<<"transactions", "subCategoryId">>} :
                schema = LegacySchema(k, legacyTables, legacyColumns)
          /\ \/ categories = DefaultCategories(SessionUser) /\ initTable = <<1>>
             \/ categories = {} /\ initTable = <<>>
    /\ transactions \in
          {{}, {TransactionRow("trans_u1", "expense", ExpenseCategoryId, 1, "a1", Today, Null)}}
    /\ ("transactions" \notin schema.tables) => transactions = {}
    /\ store = EmptyStore
    /\ accounts = {}
    /\ manage = ManageClosed({})
    /\ goalScreen = [accounts |-> {}, goals |-> {}, targetAmount |-> "",
                     targetDate |-> [year |-> 2026, month |-> 0], accountId |-> Empty,
                     includeBalance |-> FALSE, monthlyContribution |-> 0]
    /\ call = NoCall
    /\ formAccounts = {}
    /\ allTx = [transactions |-> {}, accounts |-> {}]
    /\ budget = [transactions |-> {}, accounts |-> {}]
    /\ goalAccounts = {}
    /\ faults = 0
    /\ last = [op |-> "init", res |-> "ok"]

\* startup, the standalone migration, and a user who deletes categories
SetupNext ==
    \/ \E userId \in Users :
          \E fault \in 0..Len(SetupStatements(userId)) : SetupDatabase(userId, fault)
    \/ \E fault \in 0..Len(RemoveSubcategoriesStatements(schema)) :
          MigrateRemoveSubcategories(fault)
    \/ CategoryStoreDelete

SpecSetup == InitSetup /\ [][SetupNext]_vars

\* the two stores and the add-transaction form, in a run of MaxCalls operations
SpecSync ==
    InitStore /\ [][\/ StoreNext
                    \/ CanCall /\ \E readFails \in BOOLEAN : LoadAccounts(readFails)
                    \/ CanCall /\ SubmitSimple({Today})
                    \/ CanCall /\ SubmitTransfer({Today})]_vars

\* the account list and the account store's update
SpecAccounts ==
    Init /\ [][\/ ManageLoadAccounts
               \/ OpenEditModal
               \/ OpenAddModal
               \/ SetFormData
               \/ \E fault \in 0..1 : HandleEditAccount(fault)
               \/ \E fault \in 0..1 : HandleAddAccount(fault)
               \/ \E account \in manage.accounts, fault \in 0..1 :
                       HandleDeleteAccount(account.id, fault)
               \/ AccountStoreUpdate]_vars

----
\* GoalScreen

\* the dates the goal form's picker and the clock can show: December, January
\* and February around a turn of the year
GoalDates == {[year |-> 2025, month |-> 11], [year |-> 2026, month |-> 0],
              [year |-> 2026, month |-> 1]}

\* calculateMonthlyContribution as it would be if it compared the months of
\* the two dates and left their years out
monthsRemainingSameYear(target, today) ==
    IF target.month - today.month > 1 THEN target.month - today.month ELSE 1

\* calculateMonthlyContribution: the months from `today` to `target`, at least 1
monthsRemaining(target, today) ==
    LET months == (target.year - today.year) * 12 + (target.month - today.month)
    IN  IF months > 1 THEN months ELSE 1

\* goalsWithProgress: each goal with its currentAmount and progress, from
\* the account it names among `userAccounts`
goalsWithProgress(userGoals, userAccounts) ==
    LET currentBalance(goal) ==
            IF Lookup(userAccounts, goal.accountId) # {}
            THEN TheRow(userAccounts, goal.accountId).balance ELSE 0
        currentAmount(goal) == IF goal.includeBalance THEN currentBalance(goal) ELSE 0
        percent(goal) == (currentAmount(goal) * 100) \div goal.targetAmount
    IN  { [id |-> goal.id, userId |-> goal.userId, targetAmount |-> goal.targetAmount,
           targetDate |-> goal.targetDate, accountId |-> goal.accountId,
           includeBalance |-> goal.includeBalance,
           monthlyContribution |-> goal.monthlyContribution,
           currentAmount |-> currentAmount(goal),
           progress |-> IF percent(goal) < 100 THEN percent(goal) ELSE 100]
          : goal \in userGoals }

\* loadData: the user's accounts and goals are read; the form takes the first
\* account when it names none
GoalLoadData ==
    LET userAccounts == getAccountsByUserId(DB, SessionUser)
    IN  /\ goalScreen' =
              [goalScreen EXCEPT
                 !.accounts = userAccounts,
                 !.accountId = IF userAccounts # {} /\ @ = Empty
                               THEN (CHOOSE acc \in userAccounts : TRUE).id ELSE @,
                 !.goals = goalsWithProgress(
                              {goal \in store.goals : goal.userId = SessionUser},
                              userAccounts)]
        /\ last' = [op |-> "loadData", res |-> "ok"]
        /\ UNCHANGED <<transactions, accounts, now, formAccounts, allTx, budget, goalAccounts,
                       faults, categories, initTable, schema, store, manage, call>>

\* the user changes fields of the goal form, and the effect that follows runs
\* calculateMonthlyContribution with the clock at `today`
SetGoalForm ==
    \E targetAmount \in {"", "0", "1"}, targetDate \in GoalDates, today \in GoalDates,
       accountId \in {acc.id : acc \in goalScreen.accounts} \cup {goalScreen.accountId},
       includeBalance \in BOOLEAN :
        LET amount == ParseFloat(targetAmount)
            currentBalance ==
                IF Lookup(goalScreen.accounts, accountId) # {}
                THEN TheRow(goalScreen.accounts, accountId).balance ELSE 0
            startingBalance == IF includeBalance THEN currentBalance ELSE 0
            remaining == amount - startingBalance
            months == monthsRemaining(targetDate, today)
            skipped == targetAmount = "" \/ accountId = Empty \/ amount <= 0
        IN  /\ goalScreen' =
                  [goalScreen EXCEPT
                     !.targetAmount = targetAmount, !.targetDate = targetDate,
                     !.accountId = accountId, !.includeBalance = includeBalance,
                     !.monthlyContribution =
                         IF skipped THEN @ ELSE 0 - ((0 - remaining) \div months)]
            /\ last' = [op |-> "calculateMonthlyContribution",
                        res |-> IF skipped THEN "skipped" ELSE "ok", today |-> today]
            /\ UNCHANGED <<transactions, accounts, now, formAccounts, allTx, budget,
                           goalAccounts, faults, categories, initTable, schema, store,
                           manage, call>>

\* handleSaveGoal with a title typed in, the clock at `today`: a form without
\* amount or account, or with an amount that is not positive, is turned away;
\* else the goal is added under a fresh id (generateId: the next unused one
\* here), or written over the goal being edited, the form is reset and the
\* accounts and goals are loaded again
HandleSaveGoal ==
    \E editGoal \in {goal.id : goal \in goalScreen.goals} \cup {Null}, today \in GoalDates :
        LET id == MakeId("goal_", Cardinality(store.goals) + 1)
            rejected == \/ goalScreen.targetAmount = ""
                        \/ goalScreen.accountId = Empty
                        \/ ParseFloat(goalScreen.targetAmount) <= 0
            goalData == [id |-> IF editGoal # Null THEN editGoal ELSE id,
                         userId |-> SessionUser,
                         targetAmount |-> ParseFloat(goalScreen.targetAmount),
                         targetDate |-> goalScreen.targetDate,
                         accountId |-> goalScreen.accountId,
                         includeBalance |-> goalScreen.includeBalance,
                         monthlyContribution |-> goalScreen.monthlyContribution]
            userAccounts == getAccountsByUserId(DB, SessionUser)
        IN  /\ \A goal \in store.goals : goal.id # id
            /\ Cardinality(store.goals) < MaxGoals \/ editGoal # Null
            /\ store' =
                  IF rejected THEN store
                  ELSE [store EXCEPT !.goals =
                           {goal \in @ : goal.id # goalData.id} \cup {goalData}]
            /\ goalScreen' =
                  IF rejected THEN goalScreen
                  ELSE [goalScreen EXCEPT
                          !.targetAmount = "", !.targetDate = today,
                          !.accountId = IF userAccounts # {}
                                        THEN (CHOOSE acc \in userAccounts : TRUE).id
                                        ELSE Empty,
                          !.includeBalance = FALSE,
                          !.accounts = userAccounts,
                          !.goals = goalsWithProgress(
                                      {goal \in store'.goals : goal.userId = SessionUser},
                                      userAccounts)]
            /\ last' = [op |-> "handleSaveGoal", res |-> IF rejected THEN "rejected" ELSE "ok"]
            /\ UNCHANGED <<transactions, accounts, now, formAccounts, allTx, budget,
                           goalAccounts, faults, categories, initTable, schema, manage, call>>

\* the goal list is opened on a ledger whose first account is overdrawn, empty
\* or holds more than a goal's target
InitGoals ==
    /\ now = 0
    /\ transactions = {}
    /\ \E balance \in {0 - 1, 0, 2} :
          accounts = {AccountRow("a1", SessionUser, balance), AccountRow("g1", SessionUser, 0)}
    /\ categories = DefaultCategories(SessionUser)
    /\ initTable = <<1>>
    /\ schema = CurrentSchema
    /\ store = EmptyStore
    /\ manage = ManageClosed({})
    /\ goalScreen = [accounts |-> {}, goals |-> {}, targetAmount |-> "",
                     targetDate |-> [year |-> 2026, month |-> 0], accountId |-> Empty,
                     includeBalance |-> FALSE, monthlyContribution |-> 0]
    /\ call = NoCall
    /\ formAccounts = {}
    /\ allTx = [transactions |-> {}, accounts |-> {}]
    /\ budget = [transactions |-> {}, accounts |-> {}]
    /\ goalAccounts = {}
    /\ faults = 0
    /\ last = [op |-> "init", res |-> "ok"]

\* the goal list and its form
SpecGoals == InitGoals /\ [][GoalLoadData \/ SetGoalForm \/ HandleSaveGoal]_vars

----
\* BudgetScreen and BudgetForm

\* BudgetForm.handleSave for user u1 and the year 2026, each budget handed to
\* BudgetScreen.handleSaveBudget: a form without category or limit saves
\* nothing; a recurring form saves one budget a month from the selected month
\* to December, each under its own id; else one budget is saved, under the id
\* of the budget being edited if there is one. handleSaveBudget updates the
\* stored budget of that id while a budget is being edited, and adds otherwise
HandleSaveBudget ==
    \E selectedCategory \in {c.id : c \in {x \in categories : x.type = "expense"}} \cup {Empty},
       budgetLimit \in AmountInputs, selectedMonth \in {10, 11}, isRecurring \in BOOLEAN,
       editBudget \in {b.id : b \in store.budgets} \cup {Null} :
        LET rejected == selectedCategory = Empty \/ budgetLimit = ""
            Budget(id, month) ==
                [id |-> id, userId |-> SessionUser, categoryId |-> selectedCategory,
                 budgetLimit |-> ParseFloat(budgetLimit), month |-> month, year |-> 2026]
            saved ==
                IF isRecurring
                THEN { Budget(MakeId("budget_", now) \o "_" \o ToString(month), month) :
                          month \in selectedMonth..11 }
                ELSE { Budget(IF editBudget # Null THEN editBudget
                              ELSE MakeId("budget_", now), selectedMonth) }
            updateBudget(rows) ==
                {b \in store.budgets : b.id \notin {r.id : r \in rows}}
                  \cup {r \in rows : r.id \in {b.id : b \in store.budgets}}
        IN  /\ CanCall
            /\ now' = now + 1
            /\ store' =
                  IF rejected THEN store
                  ELSE [store EXCEPT !.budgets =
                           IF editBudget # Null THEN updateBudget(saved) ELSE @ \cup saved]
            /\ last' = [op |-> "handleSaveBudget",
                        res |-> IF rejected THEN "rejected" ELSE "ok"]
            /\ UNCHANGED <<transactions, accounts, formAccounts, allTx, budget, goalAccounts,
                           goalScreen, faults, categories, initTable, schema, manage, call>>

\* the budget form on a store without budgets
SpecBudgets == Init /\ [][HandleSaveBudget]_vars

----
\* Deleting a goal

\* GoalScreen.handleDeleteGoal, confirmed for a goal of the list: the goal's
\* account is deleted, then the goal, and the list is loaded again
GoalListDelete ==
    \E goal \in {g \in store.goals : g.userId = SessionUser}, fault \in Faults :
        LET cmds == <<CmdDeleteAccount(goal.accountId, SessionUser),
                      [k |-> "deleteGoal", id |-> goal.id, userId |-> SessionUser]>>
            r == Run(DB, cmds, 1, fault)
        IN  /\ Inject(fault, cmds)
            /\ accounts' = r.db.accounts
            /\ store' = r.db.store
            /\ last' = Outcome("handleDeleteGoal", r)
            /\ UNCHANGED <<transactions, now, formAccounts, allTx, budget, goalAccounts,
                           goalScreen, categories, initTable, schema, manage, call>>

\* GoalDetailsScreen.handleDelete, confirmed while the screen holds its goal:
\* each transaction on the goal's account is deleted, its linked transaction
\* first, then the account and the goal
GoalDetailsDelete ==
    \E goal \in {g \in store.goals : g.accountId = GoalAccountId}, fault \in Faults :
        LET RECURSIVE DeleteEach(_)
            DeleteEach(rows) ==
                IF rows = {} THEN <<>>
                ELSE LET transaction == CHOOSE t \in rows : TRUE
                     IN  (IF transaction.linkedTransactionId \notin MissingValues
                          THEN <<CmdDeleteTransaction(transaction.linkedTransactionId)>>
                          ELSE <<>>)
                         \o <<CmdDeleteTransaction(transaction.id)>>
                         \o DeleteEach(rows \ {transaction})
            cmds == DeleteEach({t \in transactions : t.accountId = goal.accountId})
                    \o <<CmdDeleteAccount(goal.accountId, SessionUser),
                         [k |-> "deleteGoal", id |-> goal.id, userId |-> SessionUser]>>
            r == Run(DB, cmds, 1, fault)
        IN  /\ Inject(fault, cmds)
            /\ transactions' = r.db.transactions
            /\ accounts' = r.db.accounts
            /\ store' = r.db.store
            /\ last' = Outcome("GoalDetails.handleDelete", r)
            /\ UNCHANGED <<now, formAccounts, allTx, budget, goalAccounts, goalScreen,
                           categories, initTable, schema, manage, call>>

\* the goal details screen and the goal list
SpecGoalDelete ==
    Init /\ [][GoalLoadAccounts \/ AssignMoney \/ GoalListDelete \/ GoalDetailsDelete]_vars

----
\* Claims

\* +amount for income and credit, -amount for expense and debit
SignedAmount(t) ==
    IF t.type \in {"income", "credit"} THEN t.amount ELSE 0 - t.amount

RECURSIVE SumSigned(_)
SumSigned(S) ==
    IF S = {} THEN 0
    ELSE LET t == CHOOSE x \in S : TRUE
         IN  SignedAmount(t) + SumSigned(S \ {t})

Balances(rows) == {<<a.id, a.balance>> : a \in rows}

TransactionIds(rows) == {t.id : t \in rows}

\* C1: after any sequence of ledger operations, failed ones included, every
\* account's balance is the signed sum of the stored transactions on it.
C1_BalanceConsistency ==
    \A a \in accounts :
        a.balance = SumSigned({t \in transactions : t.accountId = a.id})

\* C2: when a write of a transfer fails after the first write was made, no row
\* of the transfer is stored and no balance has changed.
C2_NoPartialTransfer ==
    [][\A amount \in AmountInputs, fromAccountId \in formAccounts,
          toAccountId \in formAccounts, date \in Dates, fault \in 2..4 :
            ( /\ ~SubmitRejected("transfer", amount, Empty, Empty, fromAccountId, toAccountId)
              /\ HandleSubmit("transfer", amount, Empty, Empty,
                              fromAccountId, toAccountId, date, fault) )
            => /\ TransactionIds(transactions') \cap
                      {MakeId("trans_debit_", now), MakeId("trans_credit_", now)} = {}
               /\ Balances(accounts') = Balances(accounts)]_vars

\* C3: when recording an income or expense fails between the insert of the row
\* and the balance update, neither the row nor the balance change is stored.
C3_SimpleRecordAtomic ==
    [][\A type \in {"expense", "income"}, amount \in AmountInputs,
          accountId \in formAccounts, date \in Dates :
          \A categoryId \in FormCategories(type) :
            ( /\ ~SubmitRejected(type, amount, categoryId, accountId, Empty, Empty)
              /\ HandleSubmit(type, amount, categoryId, accountId, Empty, Empty, date, 2) )
            => /\ MakeId("trans_", now) \notin TransactionIds(transactions')
               /\ Balances(accounts') = Balances(accounts)]_vars

\* C7: a transfer whose source and destination are the same account, or whose
\* amount is not above 0, inserts no row and changes no balance.
C7_InvalidTransferRejected ==
    [][\A amount \in AmountInputs \ {Empty}, fromAccountId \in formAccounts,
          toAccountId \in formAccounts, date \in Dates, fault \in Faults :
            ( /\ fromAccountId = toAccountId \/ ParseFloat(amount) <= 0
              /\ HandleSubmit("transfer", amount, Empty, Empty,
                              fromAccountId, toAccountId, date, fault) )
            => UNCHANGED <<transactions, accounts>>]_vars

\* the account exists and is owned by the recording user
OwnedAccount(accountId) ==
    \E a \in accounts : a.id = accountId /\ a.userId = SessionUser

\* C8: an income or expense whose amount is not above 0, or whose account is
\* not an existing account of the recording user, inserts no row and changes
\* no balance.
C8_InvalidSimpleRejected ==
    [][\A type \in {"expense", "income"}, amount \in AmountInputs \ {Empty},
          accountId \in formAccounts, date \in Dates, fault \in Faults :
          \A categoryId \in FormCategories(type) :
            ( /\ ParseFloat(amount) <= 0 \/ ~OwnedAccount(accountId)
              /\ HandleSubmit(type, amount, categoryId, accountId, Empty, Empty, date, fault) )
            => UNCHANGED <<transactions, accounts>>]_vars

\* C9: every stored transaction row has an amount above 0.
C9_AmountPositive ==
    \A t \in transactions : t.amount > 0

\* C10: a completed delete of a transaction without linkedTransactionId adds
\* its amount back to (expense) or takes it from (income) the balance of its
\* own account and changes no other balance.
C10_SingleLegDeleteFrame ==
    [][\A t \in transactions :
          ( /\ last'.op = "AllTransactions.handleDeleteTransaction"
            /\ last'.res = "ok"
            /\ t \notin transactions'
            /\ t.type \in {"expense", "income"}
            /\ t.linkedTransactionId = Null )
          => Balances(accounts') =
                {<<a.id, IF a.id = t.accountId
                         THEN a.balance - SignedAmount(t)
                         ELSE a.balance>> : a \in accounts}]_vars

\* the two rows are the legs of one transfer, each pointing at the other
Paired(d, c) ==
    /\ d.type = "debit" /\ c.type = "credit"
    /\ d.amount = c.amount /\ d.date = c.date
    /\ d.linkedTransactionId = c.id /\ c.linkedTransactionId = d.id

\* C4: every debit row has exactly one credit row of the same amount and date
\* with reciprocal linkedTransactionId pointers, and every credit row exactly
\* one such debit row.
C4_TransferSymmetry ==
    \A t \in transactions :
        /\ t.type = "debit" =>
              Cardinality({c \in transactions : Paired(t, c)}) = 1
        /\ t.type = "credit" =>
              Cardinality({d \in transactions : Paired(d, t)}) = 1

\* the other leg of a transfer leg: a row one of the two points at
Counterparts(t, rows) ==
    {u \in rows : u.id # t.id /\
                  (u.linkedTransactionId = t.id \/ t.linkedTransactionId = u.id)}

DeleteOps ==
    {"AllTransactions.handleDeleteTransaction", "TransactionDetail.handleDelete",
     "BudgetCategoryDetails.handleDeleteTransaction"}

\* C5: after a completed delete no transfer leg is stored without its
\* counterpart (in runs where no write has failed, so that every transfer was
\* recorded whole).
C5_DeleteRemovesBothLegs ==
    (faults = 0 /\ last.op \in DeleteOps /\ last.res = "ok")
    => \A t \in transactions :
          t.type \in {"debit", "credit"} => Counterparts(t, transactions) # {}

\* C6: when the only recording of a run is a transfer between two accounts
\* with balance 0, recorded without a failed write, a completed delete of either
\* leg leaves every balance at 0 again.
C6_TransferThenDeleteRestores ==
    [][( /\ faults = 0 /\ now = Tick
         /\ \E d \in transactions, c \in transactions :
               /\ d.type = "debit" /\ c.type = "credit"
               /\ d.accountId # c.accountId
               /\ transactions = {d, c}
         /\ last'.op \in DeleteOps /\ last'.res = "ok" )
       => \A a \in accounts' : a.balance = 0]_vars

\* C11: the account store's update and the account list's edit handler leave
\* every stored balance as it was.
C11_UpdateLeavesBalance ==
    [][( \/ AccountStoreUpdate
         \/ \E fault \in 0..1 : HandleEditAccount(fault) )
       => Balances(accounts') = Balances(accounts)]_vars

\* the rows of a table that userId does not own
NotOwnedBy(rows, userId) == {r \in rows : r.userId # userId}

UpdateOps == {"updateAccount", "updateCategory", "moveTransactionsBetweenCategories"}

DeleteStoreOps == {"deleteAccount", "deleteCategory"}

\* C12: an update or delete of the account store or the category store, called
\* with user id u, leaves every row that u does not own as it was.
C12_OtherUsersRowsUnchanged ==
    [][call'.op \in UpdateOps \cup DeleteStoreOps
       => /\ NotOwnedBy(accounts', call'.user) = NotOwnedBy(accounts, call'.user)
          /\ NotOwnedBy(categories', call'.user) = NotOwnedBy(categories, call'.user)
          /\ NotOwnedBy(transactions', call'.user) = NotOwnedBy(transactions, call'.user)]_vars

\* C12 witness: updateAccount has run with the id of an account another user owns
C12_Witness ==
    /\ call.op = "updateAccount" /\ call.res = "ok"
    /\ \E r \in accounts : r.id = call.args.id /\ r.userId # call.user
    /\ call.user \in Users

\* C13: a read made for user u returns only rows that u owns.
C13_ReadsOwnRowsOnly ==
    call.op \in ReadOps => \A r \in call.rows : r.userId = call.user

\* the rows an account update or a category update was aimed at
Matched(rows, entity) == {r \in rows : r.id = entity.id /\ r.userId = entity.userId}

\* C14: after an account update or a category update that matched a row, the
\* row's synced flag is 0.
C14_UpdateSetsDirty ==
    [][(call'.op \in {"updateAccount", "updateCategory"} /\ call'.res = "ok")
       => \A r \in Matched(IF call'.op = "updateAccount" THEN accounts' ELSE categories',
                           call'.args) : r.synced = 0]_vars

\* C14 witness: an account that had been synced was updated and is dirty, next
\* to an account that is still synced
C14_Witness ==
    /\ call.op = "updateAccount" /\ call.res = "ok"
    /\ \E r \in Matched(accounts, call.args) : r.synced = 0
    /\ \E q \in accounts : q.synced = 1

\* no row of the table goes from synced = 0 to another value in the step
StaysDirty(rows, rows2) ==
    \A r \in rows, r2 \in rows2 : (r.id = r2.id /\ r.synced = 0) => r2.synced = 0

\* C15: no store operation and no recording of a transaction takes the synced
\* flag of a row from 0 to another value.
C15_DirtyStaysDirty ==
    [][/\ StaysDirty(accounts, accounts')
       /\ StaysDirty(categories, categories')
       /\ StaysDirty(transactions, transactions')]_vars

\* C15 witness: a dirty account was updated by a caller whose Account object
\* says synced: 1
C15_Witness ==
    /\ call.op = "updateAccount" /\ call.res = "ok" /\ call.args.synced = 1
    /\ \E r \in Matched(accounts, call.args) : r.synced = 0
    /\ \A q \in accounts : q.synced = 0

\* a call whose id and userId are both given
WellFormed(c) ==
    CASE c.op \in {"updateAccount", "updateCategory"} ->
            c.args.id \notin MissingValues /\ c.args.userId \notin MissingValues
      [] c.op \in DeleteStoreOps ->
            c.args[1] \notin MissingValues /\ c.args[2] \notin MissingValues
      [] OTHER -> FALSE

\* the rows a call with id and userId matches
MatchedBy(c) ==
    CASE c.op = "updateAccount" -> Matched(accounts, c.args)
      [] c.op = "updateCategory" -> Matched(categories, c.args)
      [] c.op = "deleteAccount" ->
            {r \in accounts : r.id = c.args[1] /\ r.userId = c.args[2]}
      [] c.op = "deleteCategory" ->
            {r \in categories : r.id = c.args[1] /\ r.userId = c.args[2]}

\* C16 as stated: the second of two equal update or delete calls raises no
\* error and leaves the stored state as the first call left it, and an update
\* or delete that matches no row succeeds and changes nothing.
C16_Idempotent ==
    [][/\ (call'.again /\ WellFormed(call'))
            => /\ call'.res = "ok"
               /\ UNCHANGED <<accounts, categories, transactions>>
       /\ (WellFormed(call') /\ MatchedBy(call') = {})
            => /\ call'.res = "ok"
               /\ UNCHANGED <<accounts, categories, transactions>>]_vars

\* the account rows without their update stamp
WithoutUpdatedAt(rows) == {[r EXCEPT !.updatedAt = 0] : r \in rows}

\* C16 as amended: the same, but that updateAccount writes the time of the call
\* into updatedAt of the row it matches, on the second call as on the first.
C16_IdempotentButUpdatedAt ==
    [][/\ (call'.again /\ WellFormed(call'))
            => /\ call'.res = "ok"
               /\ WithoutUpdatedAt(accounts') = WithoutUpdatedAt(accounts)
               /\ \A r \in accounts' :
                     r \in accounts \/ (r \in Matched(accounts', call'.args)
                                        /\ call'.op = "updateAccount"
                                        /\ r.updatedAt = now)
               /\ UNCHANGED <<categories, transactions>>
       /\ (WellFormed(call') /\ MatchedBy(call') = {})
            => /\ call'.res = "ok"
               /\ UNCHANGED <<accounts, categories, transactions>>]_vars

\* C16 witness: updateAccount has been called twice with the same account, which
\* is stored
C16_Witness ==
    /\ call.op = "updateAccount" /\ call.again /\ call.res = "ok"
    /\ Matched(accounts, call.args) # {}
    /\ call.args.balance # 0

\* C17: addAccount and addCategory, given an entity without id or without
\* userId, fail and insert no row.
C17_CreateValidates ==
    [][( /\ call'.op \in {"addAccount", "addCategory"}
         /\ (call'.args.id \in MissingValues \/ call'.args.userId \in MissingValues) )
       => /\ call'.res = "failed"
          /\ UNCHANGED <<accounts, categories>>]_vars

\* the six fixed ids of the default categories
DefaultCategoryIds == {c.id : c \in DefaultCategoryRows}

\* the init table holds a row whose initialized column is 1
MarkerSet == Len(initTable) > 0 /\ initTable[1] = 1

\* C18: through every run of setupDatabase, a failed run followed by a retry
\* included, each default category id is stored at most once, and a run that
\* finds the marker set inserts no category. (A step of setupDatabase is one
\* that records setupDatabase in `last` and, unlike a store call, leaves the
\* clock alone.)
C18_SeededAtMostOnce ==
    [][/\ \A id \in DefaultCategoryIds :
             Cardinality({c \in categories' : c.id = id}) <= 1
       /\ (MarkerSet /\ now' = now /\ last'.op = "setupDatabase")
            => categories' = categories]_vars

\* C18 witness: setupDatabase completed on a retry, after a run that had
\* inserted the default categories and failed before it wrote the marker
C18_Witness ==
    /\ last.op = "setupDatabase" /\ last.res = "ok"
    /\ last.retried /\ last.seeded
    /\ initTable = <<1>>

\* C19: once setupDatabase(u) has completed, the six default categories are
\* stored and owned by u (in runs where no category has been deleted).
C19_DefaultsForEveryUser ==
    (last.op = "setupDatabase" /\ last.res = "ok" /\ call = NoCall)
    => \A d \in DefaultCategoryRows :
          \E c \in categories : c.id = d.id /\ c.userId = last.userId

\* no table and no column of the subcategories era is left, and transactions
\* is in place
SubcategoriesRemoved(s) ==
    /\ "subcategories" \notin s.tables
    /\ "transactions_temp" \notin s.tables
    /\ "transactions" \in s.tables
    /\ ~HasColumn(s, "transactions", "subCategoryId")

\* C20: a run of migrateDatabase (inside setupDatabase) or of
\* migrateRemoveSubcategories in which no statement is made to fail, started
\* from a state an earlier run of it has left, ends without error and leaves
\* the schema in the target shape.
C20_MigrationsRerunnable ==
    [][/\ \A userId \in Users :
            (last.op = "setupDatabase" /\ last.migrated /\ SetupDatabase(userId, 0))
            => (last'.res = "ok" /\ schema' = CurrentSchema)
       /\ (last.op = "migrateRemoveSubcategories" /\ MigrateRemoveSubcategories(0))
            => (last'.res = "ok" /\ SubcategoriesRemoved(schema'))]_vars

\* C21: a run that finds subCategoryId still in transactions, wherever it
\* stops, leaves every transaction row in the transactions table and no
\* transactions_temp table beside it. (A step that leaves the clock alone is a
\* run of setupDatabase or of migrateRemoveSubcategories.)
C21_RebuildAtomic ==
    [][(now' = now /\ HasColumn(schema, "transactions", "subCategoryId"))
       => /\ "transactions" \in schema'.tables
          /\ "transactions_temp" \notin schema'.tables
          /\ transactions' = transactions]_vars

\* C22: a run of setupDatabase in which a statement of migrateDatabase fails
\* ends in failure, inserts no category and writes no marker.
C22_MigrationFailureIsFatal ==
    [][(now' = now /\ last'.op = "setupDatabase" /\ last'.migrationFailed)
       => /\ last'.res = "failed"
          /\ categories' = categories
          /\ initTable' = initTable]_vars

\* C22 witness: setupDatabase failed in a migration statement on a store whose
\* default data had been due
C22_Witness ==
    /\ last.op = "setupDatabase" /\ last.migrationFailed /\ last.res = "failed"
    /\ initTable = <<>>
    /\ categories = {}

\* C23: once handleDeleteCategory has deleted a category, no transaction has
\* the id of that category as its categoryId.
C23_DeletedCategoryUnreferenced ==
    [][(call'.op = "handleDeleteCategory" /\ call'.res = "ok")
       => \A t \in transactions' : t.categoryId # call'.args]_vars

\* the transactions the specification counts toward the spend of the budget the
\* details screen is opened for
CountedTowardSpend(rows) ==
    {t \in rows : /\ t.type = "expense"
                  /\ t.categoryId = BudgetCategoryId
                  /\ t.userId = BudgetUserId
                  /\ MonthOf(t.date) = BudgetMonth}

\* C24: the transactions fetchData keeps for the budget are the expenses of the
\* budget's category, user and month, and no others.
C24_SpendCountsExpensesOnly ==
    [][BudgetFetchData => budget'.transactions = CountedTowardSpend(transactions')]_vars

\* C25: every goal the goal list shows has currentAmount equal to its account's
\* balance when includeBalance is set and 0 otherwise, and a progress in 0..100
C25_ProgressInRange ==
    \A goal \in goalScreen.goals :
        /\ goal.progress \in 0..100
        /\ goal.currentAmount =
              IF goal.includeBalance /\ Lookup(goalScreen.accounts, goal.accountId) # {}
              THEN TheRow(goalScreen.accounts, goal.accountId).balance ELSE 0

\* the calendar months from `today` to `target`, negative for a past target
CalendarMonths(target, today) ==
    (target.year * 12 + target.month) - (today.year * 12 + today.month)

\* what is still to be saved on the goal form
FormRemaining(form) ==
    ParseFloat(form.targetAmount)
      - (IF form.includeBalance /\ Lookup(form.accounts, form.accountId) # {}
         THEN TheRow(form.accounts, form.accountId).balance ELSE 0)

\* C26: the monthly contribution the form computes is the least whole number
\* that reaches (targetAmount - currentAmount) in monthsRemaining months, where
\* monthsRemaining is the calendar-month difference from today to the target
\* date and is 1 for a target in the current month or in the past
C26_MonthlyContribution ==
    [][(last'.op = "calculateMonthlyContribution" /\ last'.res = "ok")
       => LET diff == CalendarMonths(goalScreen'.targetDate, last'.today)
              months == IF diff >= 1 THEN diff ELSE 1
              monthly == goalScreen'.monthlyContribution
          IN  /\ monthly * months >= FormRemaining(goalScreen')
              /\ (monthly - 1) * months < FormRemaining(goalScreen')]_vars

\* a contribution was computed for a target date two months in the past: the
\* whole remainder of 2 falls on one month
C26_Witness ==
    /\ last.op = "calculateMonthlyContribution" /\ last.res = "ok"
    /\ CalendarMonths(goalScreen.targetDate, last.today) = 0 - 2
    /\ FormRemaining(goalScreen) = 2
    /\ goalScreen.monthlyContribution = 2

\* C27: whatever budgets have been saved through the budget form, no two stored
\* budgets have the same user, category, month and year
C27_OneBudgetPerKey ==
    \A b1, b2 \in store.budgets :
        (b1.userId = b2.userId /\ b1.categoryId = b2.categoryId
         /\ b1.month = b2.month /\ b1.year = b2.year) => b1 = b2

\* C28: once a goal has been deleted, from the goal list or from the goal
\* details screen, its account is gone and no stored transaction is on it
C28_GoalDeleteLeavesNoTransactions ==
    (last.op \in {"handleDeleteGoal", "GoalDetails.handleDelete"} /\ last.res = "ok")
    => /\ Lookup(accounts, GoalAccountId) = {}
       /\ \A t \in transactions : t.accountId # GoalAccountId

\* C29: an assignment that follows the screen's load or an earlier assignment
\* takes its amount from the stored balance of the source account and adds it
\* to the stored balance of the goal's account, so that successive assignments
\* add up
C29_AssignmentsAddUp ==
    [][( /\ last.op \in {"GoalDetails.loadAccounts", "handleAssignMoney"}
         /\ last.res = "ok"
         /\ last'.op = "handleAssignMoney"
         /\ last'.res = "ok" )
       => \A t \in transactions' \ transactions :
             (t.type = "debit" /\ t.accountId # GoalAccountId)
             => /\ TheRow(accounts', t.accountId).balance
                      = TheRow(accounts, t.accountId).balance - t.amount
                /\ TheRow(accounts', GoalAccountId).balance
                      = TheRow(accounts, GoalAccountId).balance + t.amount]_vars

\* C30: a completed delete on the transaction list whose snapshot of the
\* transaction's account no longer shows the stored balance takes the
\* transaction's effect off the stored balance
C30_StaleDeleteKeepsChanges ==
    [][\A t \in transactions \ transactions' :
          ( /\ last'.op = "AllTransactions.handleDeleteTransaction"
            /\ last'.res = "ok"
            /\ Lookup(allTx.accounts, t.accountId) # {}
            /\ Lookup(accounts, t.accountId) # {}
            /\ TheRow(allTx.accounts, t.accountId).balance
                  # TheRow(accounts, t.accountId).balance )
          => TheRow(accounts', t.accountId).balance
                = TheRow(accounts, t.accountId).balance - SignedAmount(t)]_vars

====
